---- MODULE Spec2Model ----
(***************************************************************************)
(* Model of the BFGS notebook src/ex1-5.ipynb: the step-size routine       *)
(* bfgs_step and the optimisation loop bfgs.                               *)
(*                                                                         *)
(* Numbers.  The program computes in IEEE double precision.  The model     *)
(* computes in exact rational arithmetic extended with the three           *)
(* non-finite values +inf, -inf and NaN, which follow the IEEE rules       *)
(* (x/0, inf-inf, 0*inf, comparisons with NaN are false).  A value is a    *)
(* pair <<num, den>> in lowest terms with den >= 0; den = 0 encodes the    *)
(* non-finite values: <<1,0>> = +inf, <<-1,0>> = -inf, <<0,0>> = NaN.      *)
(* Rounding is not modelled; signed zeros are not modelled.                *)
(***************************************************************************)
EXTENDS Integers, Sequences, FiniteSets, TLC

(***************************************************************************)
(* Bounds of the model (not program constants).                            *)
(***************************************************************************)
\* largest iteration cap max_iter tried for the general inputs
MaxIter == 3
\* halvings after which a backtracking loop is no longer followed
MaxHalvings == 4

(***************************************************************************)
(* Extended rational arithmetic (the arithmetic of numpy float64).         *)
(***************************************************************************)
Sgn(i) == IF i > 0 THEN 1 ELSE IF i < 0 THEN -1 ELSE 0

Abs(i) == IF i < 0 THEN -i ELSE i

RECURSIVE Gcd(_, _)
Gcd(a, b) == IF b = 0 THEN a ELSE Gcd(b, a % b)

\* the value num/den, in lowest terms; den = 0 gives +inf, -inf or NaN
Frac(num, den) ==
    IF den = 0 THEN <<Sgn(num), 0>>
    ELSE LET g == Gcd(Abs(num), Abs(den))
         IN  <<Sgn(num) * Sgn(den) * (Abs(num) \div g), Abs(den) \div g>>

NaN == <<0, 0>>
PInf == <<1, 0>>
NInf == <<-1, 0>>
Zero == <<0, 1>>
One == <<1, 1>>
Half == <<1, 2>>

IsFinite(a) == a[2] # 0
IsNaN(a) == a = NaN

Neg(a) == <<-a[1], a[2]>>

Mul(a, b) ==
    IF a[2] = 0 \/ b[2] = 0 THEN <<Sgn(a[1]) * Sgn(b[1]), 0>>
    ELSE LET g1 == Gcd(Abs(a[1]), b[2])
             g2 == Gcd(Abs(b[1]), a[2])
         IN  <<(a[1] \div g1) * (b[1] \div g2), (a[2] \div g2) * (b[2] \div g1)>>

Add(a, b) ==
    IF a[2] = 0 /\ b[2] = 0 THEN (IF a = b THEN a ELSE NaN)
    ELSE IF a[2] = 0 THEN a
    ELSE IF b[2] = 0 THEN b
    ELSE LET g == Gcd(a[2], b[2])
         IN  Frac(a[1] * (b[2] \div g) + b[1] * (a[2] \div g), (a[2] \div g) * b[2])

Sub(a, b) == Add(a, Neg(b))

Inv(a) == Frac(a[2], a[1])

Div(a, b) == Mul(a, Inv(b))

\* a > b as float64 compares: false when either side is NaN
Gt(a, b) ==
    IF IsNaN(a) \/ IsNaN(b) THEN FALSE
    ELSE IF a[2] = 0 \/ b[2] = 0 THEN (a = PInf /\ b # PInf) \/ (b = NInf /\ a # NInf)
    ELSE a[1] * b[2] > b[1] * a[2]

(***************************************************************************)
(* Vectors (1-D arrays) and matrices (2-D arrays) of such values.          *)
(***************************************************************************)
Dim(v) == 1..Len(v)

IsFiniteVec(v) == \A i \in Dim(v) : IsFinite(v[i])

RECURSIVE SumTo(_, _)
SumTo(v, k) == IF k = 0 THEN Zero ELSE Add(SumTo(v, k - 1), v[k])

\* np.dot(u, v) and u @ v of two 1-D arrays: the scalar sum of u_i * v_i
Dot(u, v) == SumTo([i \in Dim(u) |-> Mul(u[i], v[i])], Len(u))

Scale(s, v) == [i \in Dim(v) |-> Mul(s, v[i])]

VAdd(u, v) == [i \in Dim(u) |-> Add(u[i], v[i])]

VSub(u, v) == [i \in Dim(u) |-> Sub(u[i], v[i])]

VNeg(v) == [i \in Dim(v) |-> Neg(v[i])]

Row(M, i) == M[i]

Col(M, j) == [i \in Dim(M) |-> M[i][j]]

MatVec(M, v) == [i \in Dim(M) |-> Dot(Row(M, i), v)]

MatMul(A, B) == [i \in Dim(A) |-> [j \in Dim(A) |-> Dot(Row(A, i), Col(B, j))]]

MatScale(s, M) == [i \in Dim(M) |-> Scale(s, M[i])]

\* np.eye(n)
Eye(n) == [i \in 1..n |-> [j \in 1..n |-> IF i = j THEN One ELSE Zero]]

\* np.eye(n) - s for a scalar s: numpy broadcasts s over every entry
EyeMinusScalar(n, s) == [i \in 1..n |-> [j \in 1..n |-> Sub(Eye(n)[i][j], s)]]

IsNonFiniteMat(M) == \A i \in Dim(M) : \A j \in Dim(M) : ~IsFinite(M[i][j])

IntVec(t) == [i \in Dim(t) |-> <<t[i], 1>>]

(***************************************************************************)
(* Objectives.  bfgs takes the objective f as an argument and derives its  *)
(* gradient with autograd.  The model draws f from a family:               *)
(*   kind "quad": f(x) = sum_i a_i * x_i^2    (a = <<1,1>> is the          *)
(*                notebook's own f), gradient 2 * a_i * x_i;               *)
(*   kind "lin":  f(x) = sum_i a_i * x_i, whose gradient is the constant   *)
(*                vector a at every x (the chain rule never reads x).      *)
(***************************************************************************)
Quad(a) == [kind |-> "quad", a |-> a]

Lin(a) == [kind |-> "lin", a |-> a]

\* f(x)
F(obj, v) ==
    IF obj.kind = "quad"
    THEN SumTo([i \in Dim(v) |-> Mul(<<obj.a[i], 1>>, Mul(v[i], v[i]))], Len(v))
    ELSE SumTo([i \in Dim(v) |-> Mul(<<obj.a[i], 1>>, v[i])], Len(v))

\* df = grad(f), evaluated at v
DF(obj, v) ==
    IF obj.kind = "quad"
    THEN [i \in Dim(v) |-> Mul(<<2 * obj.a[i], 1>>, v[i])]
    ELSE IntVec(obj.a)

\* scipy.linalg.norm(g) < tol for a finite vector g and tol > 0, decided
\* without the square root: sum g_i^2 < tol^2
NormLt(g, t) ==
    LET s == Dot(g, g)
    IN  s[1] <= (((s[2] * t[1] * t[1]) - 1) \div t[2]) \div t[2]

VARIABLES
    f, x0, method, armijo_param, max_iter, tol, save_history,  \* arguments of bfgs
    x, H_inv, converged, n_iter, iter, history,                \* locals of bfgs
    search_direction, step_size, x_old, p, q, rho, out,
    alpha,                                                     \* local of bfgs_step
    pc,          \* position in the code
    direct,      \* TRUE when bfgs_step was called on its own, not from bfgs
    halvings,    \* how often this call of bfgs_step executed alpha *= 0.5
    ncalls,      \* how often bfgs called bfgs_step
    nupdates,    \* how often bfgs assigned x = x + step_size * search_direction
    nHupdates,   \* how often bfgs assigned H_inv at line 143
    checks,      \* the iterates tested at line 122, with the test's outcome
    H_used,      \* the H_inv the current iteration's search_direction was computed from
    degenerate   \* TRUE once an iteration produced a secant pair with dot(p,q) = 0

args == <<f, x0, method, armijo_param, max_iter, tol, save_history, direct>>

vars == <<f, x0, method, armijo_param, max_iter, tol, save_history,
          x, H_inv, converged, n_iter, iter, history,
          search_direction, step_size, x_old, p, q, rho, out,
          alpha, pc, direct, halvings, ncalls, nupdates, nHupdates, checks, H_used,
          degenerate>>

\* a name that is not bound yet
Unset == <<>>

n == Len(x0)

(***************************************************************************)
(* bfgs_step                                                               *)
(***************************************************************************)
\* line_search = lambda alpha: f(x + alpha*search_direction)
line_search(a) == F(f, VAdd(x, Scale(a, search_direction)))

\* variant: the directional-derivative term subtracted instead of added
ArmijoBoundWrongSign(a) ==
    Sub(F(f, x), Mul(Mul(armijo_param, a), Dot(DF(f, x), search_direction)))

\* f(x) + armijo_param * alpha * np.dot(df(x), search_direction)
ArmijoBound(a) ==
    Add(F(f, x), Mul(Mul(armijo_param, a), Dot(DF(f, x), search_direction)))

\* the condition of the while loop
ArmijoWhile(a) == Gt(line_search(a), ArmijoBound(a))

\* what minimize_scalar may hand back when the line function has no minimizer
\* it can bracket (unbounded below, constant, or not finite)
AnyAlpha == {NaN, PInf, Zero, One}

\* minimize_scalar(line_search).x: Brent's method without bounds.  On a
\* strictly convex parabola g(a) = g0 + g1*a + g2*a^2 it returns the vertex.
ExactAlphas ==
    LET g0 == line_search(Zero)
        gp == line_search(One)
        gm == line_search(Neg(One))
        g1 == Mul(Half, Sub(gp, gm))
        g2 == Sub(Mul(Half, Add(gp, gm)), g0)
    IN  IF IsFinite(g0) /\ IsFinite(gp) /\ IsFinite(gm) /\ Gt(g2, Zero)
        THEN {Neg(Div(g1, Mul(<<2, 1>>, g2)))}
        ELSE AnyAlpha

ReturnTo == IF direct THEN "returned" ELSE "update_x"

bfgs_step_full ==
    /\ pc = "step" /\ method = "full"
    /\ step_size' = One
    /\ pc' = ReturnTo
    /\ ncalls' = ncalls + 1
    /\ UNCHANGED <<args, nHupdates, degenerate, x, H_inv, converged, n_iter, iter, history, search_direction,
                   x_old, p, q, rho, out, alpha, halvings, nupdates, checks, H_used>>

bfgs_step_exact ==
    /\ pc = "step" /\ method = "exact"
    /\ \E a \in ExactAlphas : step_size' = a
    /\ pc' = ReturnTo
    /\ ncalls' = ncalls + 1
    /\ UNCHANGED <<args, nHupdates, degenerate, x, H_inv, converged, n_iter, iter, history, search_direction,
                   x_old, p, q, rho, out, alpha, halvings, nupdates, checks, H_used>>

bfgs_step_armijo ==
    /\ pc = "step" /\ method = "Armijo"
    /\ alpha' = One
    /\ halvings' = 0
    /\ pc' = "armijo_while"
    /\ ncalls' = ncalls + 1
    /\ UNCHANGED <<args, nHupdates, degenerate, x, H_inv, converged, n_iter, iter, history, search_direction,
                   step_size, x_old, p, q, rho, out, nupdates, checks, H_used>>

armijo_halve ==
    /\ pc = "armijo_while"
    /\ ArmijoWhile(alpha)
    /\ halvings < MaxHalvings
    /\ alpha' = Mul(alpha, Half)
    /\ halvings' = halvings + 1
    /\ UNCHANGED <<args, nHupdates, degenerate, x, H_inv, converged, n_iter, iter, history, search_direction,
                   step_size, x_old, p, q, rho, out, pc, ncalls, nupdates, checks, H_used>>

armijo_return ==
    /\ pc = "armijo_while"
    /\ ~ArmijoWhile(alpha)
    /\ step_size' = alpha
    /\ pc' = ReturnTo
    /\ UNCHANGED <<args, nHupdates, degenerate, x, H_inv, converged, n_iter, iter, history, search_direction,
                   x_old, p, q, rho, out, alpha, halvings, ncalls, nupdates, checks, H_used>>

(***************************************************************************)
(* bfgs                                                                    *)
(***************************************************************************)
\* variant: for iter in range(max_iter + 1)
for_next_inclusive ==
    /\ pc = "for"
    /\ IF iter + 1 <= max_iter
       THEN iter' = iter + 1 /\ pc' = "record"
       ELSE iter' = iter /\ pc' = "out"
    /\ UNCHANGED <<args, nHupdates, degenerate, x, H_inv, converged, n_iter, history,
                   search_direction, step_size, x_old, p, q, rho, out, alpha, halvings,
                   ncalls, nupdates, checks, H_used>>

\* for iter in range(max_iter)
for_next ==
    /\ pc = "for"
    /\ IF iter + 1 < max_iter
       THEN iter' = iter + 1 /\ pc' = "record"
       ELSE iter' = iter /\ pc' = "out"
    /\ UNCHANGED <<args, nHupdates, degenerate, x, H_inv, converged, n_iter, history, search_direction,
                   step_size, x_old, p, q, rho, out, alpha, halvings, ncalls, nupdates,
                   checks, H_used>>

\* variant: history = [x], a new list in every iteration
record_rebinds ==
    /\ pc = "record"
    /\ history' = IF save_history THEN <<x>> ELSE history
    /\ pc' = "test"
    /\ UNCHANGED <<args, nHupdates, degenerate, x, H_inv, converged, n_iter, iter,
                   search_direction, step_size, x_old, p, q, rho, out, alpha, halvings,
                   ncalls, nupdates, checks, H_used>>

\* if save_history: history.append(x)
record ==
    /\ pc = "record"
    /\ history' = IF save_history THEN Append(history, x) ELSE history
    /\ pc' = "test"
    /\ UNCHANGED <<args, nHupdates, degenerate, x, H_inv, converged, n_iter, iter, search_direction,
                   step_size, x_old, p, q, rho, out, alpha, halvings, ncalls, nupdates,
                   checks, H_used>>

\* the test la.norm(df(x)) < tol
ToleranceMet(g) == NormLt(g, tol)

\* variant: n_iter = iter + 1
test_counts_from_one ==
    /\ pc = "test"
    /\ LET g == DF(f, x)
       IN  IF ~IsFiniteVec(g)
           THEN /\ pc' = "raised"
                /\ UNCHANGED <<n_iter, converged, checks>>
           ELSE /\ checks' = Append(checks, [x |-> x, below |-> ToleranceMet(g)])
                /\ IF ToleranceMet(g)
                   THEN n_iter' = iter + 1 /\ converged' = TRUE /\ pc' = "out"
                   ELSE UNCHANGED <<n_iter, converged>> /\ pc' = "direction"
    /\ UNCHANGED <<args, nHupdates, degenerate, x, H_inv, iter, history, search_direction,
                   step_size, x_old, p, q, rho, out, alpha, halvings, ncalls, nupdates,
                   H_used>>

\* variant: the break is missing
test_without_break ==
    /\ pc = "test"
    /\ LET g == DF(f, x)
       IN  IF ~IsFiniteVec(g)
           THEN /\ pc' = "raised"
                /\ UNCHANGED <<n_iter, converged, checks>>
           ELSE /\ checks' = Append(checks, [x |-> x, below |-> ToleranceMet(g)])
                /\ pc' = "direction"
                /\ IF ToleranceMet(g)
                   THEN n_iter' = iter /\ converged' = TRUE
                   ELSE UNCHANGED <<n_iter, converged>>
    /\ UNCHANGED <<args, nHupdates, degenerate, x, H_inv, iter, history, search_direction,
                   step_size, x_old, p, q, rho, out, alpha, halvings, ncalls, nupdates,
                   H_used>>

\* if la.norm(df(x)) < tol: n_iter = iter; converged = True; break
\* scipy.linalg.norm checks its argument (check_finite=True) and raises
\* ValueError when it holds an inf or a NaN.
test ==
    /\ pc = "test"
    /\ LET g == DF(f, x)
       IN  IF ~IsFiniteVec(g)
           THEN /\ pc' = "raised"
                /\ UNCHANGED <<n_iter, converged, checks>>
           ELSE /\ checks' = Append(checks, [x |-> x, below |-> ToleranceMet(g)])
                /\ IF ToleranceMet(g)
                   THEN n_iter' = iter /\ converged' = TRUE /\ pc' = "out"
                   ELSE UNCHANGED <<n_iter, converged>> /\ pc' = "direction"
    /\ UNCHANGED <<args, nHupdates, degenerate, x, H_inv, iter, history, search_direction,
                   step_size, x_old, p, q, rho, out, alpha, halvings, ncalls, nupdates,
                   H_used>>

\* search_direction = - H_inv @ df(x)
Direction(H, g) == VNeg(MatVec(H, g))

direction ==
    /\ pc = "direction"
    /\ search_direction' = Direction(H_inv, DF(f, x))
    /\ H_used' = H_inv
    /\ pc' = "step"
    /\ UNCHANGED <<args, nHupdates, degenerate, x, H_inv, converged, n_iter, iter, history,
                   step_size, x_old, p, q, rho, out, alpha, halvings, ncalls, nupdates,
                   checks>>

\* x_old = x; x = x + step_size * search_direction;
\* p = x - x_old; q = df(x) - df(x_old); rho = 1 / np.dot(p,q)
update_x ==
    /\ pc = "update_x"
    /\ x_old' = x
    /\ x' = VAdd(x, Scale(step_size, search_direction))
    /\ p' = VSub(x', x)
    /\ q' = VSub(DF(f, x'), DF(f, x))
    /\ rho' = Div(One, Dot(p', q'))
    /\ nupdates' = nupdates + 1
    /\ degenerate' = (degenerate \/ Dot(p', q') = Zero)
    /\ pc' = "update_H"
    /\ UNCHANGED <<args, nHupdates, H_inv, converged, n_iter, iter, history, search_direction,
                   step_size, out, alpha, halvings, ncalls, checks, H_used>>

\* variant: the first-iteration rescaling left out
RescaledNever(H, it, pp, qq) == H

\* if iter == 0: H_inv *= np.dot(p,q) / np.dot(q,q)
Rescaled(H, it, pp, qq) ==
    IF it = 0 THEN MatScale(Div(Dot(pp, qq), Dot(qq, qq)), H) ELSE H

\* np.eye(n) - rho * p @ q.T : p and q are 1-D arrays, so q.T is q and
\* (rho * p) @ q is their scalar product, which numpy subtracts from every
\* entry of the identity
UpdateFactor(r, pp, qq) == EyeMinusScalar(Len(pp), Dot(Scale(r, pp), qq))

\* H_inv = (np.eye(n) - rho * p @ q.T) @ H_inv @ (np.eye(n) - rho * p @ q.T)
UpdatedH(H, r, pp, qq) ==
    MatMul(MatMul(UpdateFactor(r, pp, qq), H), UpdateFactor(r, pp, qq))

update_H ==
    /\ pc = "update_H"
    /\ H_inv' = UpdatedH(Rescaled(H_inv, iter, p, q), rho, p, q)
    /\ nHupdates' = nHupdates + 1
    /\ pc' = "for"
    /\ UNCHANGED <<args, degenerate, x, converged, n_iter, iter, history, search_direction,
                   step_size, x_old, p, q, rho, out, alpha, halvings, ncalls, nupdates,
                   checks, H_used>>

\* out = BFGSOutput(x, f(x), converged, n_iter); if save_history: out.add_history(history)
BFGSOutput(xx, fx, conv, it) ==
    [x |-> xx, fx |-> fx, converged |-> conv, iter |-> it,
     has_history |-> FALSE, history |-> <<>>]

add_history(o, h) == [o EXCEPT !.has_history = TRUE, !.history = h]

return_out ==
    /\ pc = "out"
    /\ out' = LET o == BFGSOutput(x, F(f, x), converged, n_iter)
              IN  <<IF save_history THEN add_history(o, history) ELSE o>>
    /\ pc' = "done"
    /\ UNCHANGED <<args, nHupdates, degenerate, x, H_inv, converged, n_iter, iter, history, search_direction,
                   step_size, x_old, p, q, rho, alpha, halvings, ncalls, nupdates,
                   checks, H_used>>

(***************************************************************************)
(* Inputs                                                                  *)
(***************************************************************************)
\* max_iter = 20, tol = 1e-5, armijo_param = 0.5: the defaults of bfgs
DefaultMaxIter == 20
DefaultTolInverse == 100000
DefaultTol == <<1, DefaultTolInverse>>

Methods == {"full", "exact", "Armijo"}

ArmijoParams == {Half, <<3, 4>>, One}

Tols == {DefaultTol, One}

\* the notebook's f(x) = x[0]**2 + x[1]**2
NotebookF == Quad(<<1, 1>>)

\* the objectives and starting points tried: <<f, x0>>
Problems ==
    { <<NotebookF, IntVec(<<1, 1>>)>>,
      <<NotebookF, IntVec(<<0, 0>>)>>,
      <<NotebookF, IntVec(<<1, 2>>)>>,
      <<Quad(<<1, 3>>), IntVec(<<3, 1>>)>>,
      <<Quad(<<1, 2>>), IntVec(<<0, 1>>)>>,
      <<Quad(<<1, -1>>), IntVec(<<1, 1>>)>>,
      <<Quad(<<1, -1>>), IntVec(<<1, 0>>)>>,
      <<Lin(<<1, 1>>), IntVec(<<1, 1>>)>>,
      <<Quad(<<1, 1, 1>>), IntVec(<<1, 1, 1>>)>>,
      <<Lin(<<1, 1, 1>>), IntVec(<<1, 0, 0>>)>> }

\* the state of bfgs after lines 104-115
Entered ==
    /\ x = x0
    /\ H_inv = Eye(n)
    /\ converged = FALSE
    /\ n_iter = max_iter
    /\ history = <<>>
    /\ iter = -1
    /\ search_direction = Unset /\ step_size = Unset /\ x_old = Unset
    /\ p = Unset /\ q = Unset /\ rho = Unset /\ out = Unset /\ alpha = Unset
    /\ pc = "for"
    /\ direct = FALSE
    /\ halvings = 0 /\ ncalls = 0 /\ nupdates = 0 /\ nHupdates = 0
    /\ checks = <<>> /\ H_used = Unset /\ degenerate = FALSE

\* any problem of the family, with a small iteration cap
InitGeneral ==
    /\ \E pr \in Problems : f = pr[1] /\ x0 = pr[2]
    /\ method \in Methods
    /\ armijo_param \in ArmijoParams
    /\ max_iter \in 0..MaxIter
    /\ tol \in Tols
    /\ save_history \in BOOLEAN
    /\ Entered

\* the notebook's f from (1,1) with full steps and ten or more iterations allowed
InitNotebook ==
    /\ f = NotebookF /\ x0 = IntVec(<<1, 1>>)
    /\ method = "full"
    /\ armijo_param \in ArmijoParams
    /\ max_iter \in 10..DefaultMaxIter
    /\ tol = DefaultTol
    /\ save_history \in BOOLEAN
    /\ Entered

Init == InitGeneral \/ InitNotebook

Next ==
    \/ for_next
    \/ record
    \/ test
    \/ direction
    \/ bfgs_step_full
    \/ bfgs_step_exact
    \/ bfgs_step_armijo
    \/ armijo_halve
    \/ armijo_return
    \/ update_x
    \/ update_H
    \/ return_out

Spec == Init /\ [][Next]_vars

(***************************************************************************)
(* bfgs_step called on its own: any iterate, any direction.                *)
(***************************************************************************)
NaNVec(k) == [i \in 1..k |-> NaN]

\* <<f, x, search_direction>>
StepInputs ==
    ({NotebookF, Quad(<<1, 3>>), Quad(<<1, -1>>), Lin(<<1, 1>>)}
        \X {IntVec(<<1, 1>>), IntVec(<<3, 1>>), IntVec(<<0, 0>>)}
        \X {IntVec(<<-2, -2>>), IntVec(<<2, 2>>), IntVec(<<-6, -6>>), IntVec(<<1, -1>>),
            IntVec(<<0, 0>>), NaNVec(2)})
    \cup
    ({Quad(<<1, 1, 1>>), Lin(<<1, 1, 1>>)}
        \X {IntVec(<<1, 1, 1>>)}
        \X {IntVec(<<-2, -2, -2>>), IntVec(<<2, 2, 2>>), IntVec(<<1, -1, 0>>), NaNVec(3)})

InitStep ==
    /\ \E inp \in StepInputs : f = inp[1] /\ x = inp[2] /\ search_direction = inp[3]
    /\ method \in Methods
    /\ armijo_param \in ArmijoParams
    /\ x0 = x /\ max_iter = 0 /\ tol = DefaultTol /\ save_history = FALSE
    /\ H_inv = Unset /\ converged = FALSE /\ n_iter = 0 /\ history = <<>> /\ iter = -1
    /\ step_size = Unset /\ x_old = Unset
    /\ p = Unset /\ q = Unset /\ rho = Unset /\ out = Unset /\ alpha = Unset
    /\ pc = "step"
    /\ direct = TRUE
    /\ halvings = 0 /\ ncalls = 0 /\ nupdates = 0 /\ nHupdates = 0
    /\ checks = <<>> /\ H_used = Unset /\ degenerate = FALSE

NextStep ==
    \/ bfgs_step_full
    \/ bfgs_step_exact
    \/ bfgs_step_armijo
    \/ armijo_halve
    \/ armijo_return

SpecStep == InitStep /\ [][NextStep]_vars

(***************************************************************************)
(* Properties                                                              *)
(***************************************************************************)
Done == pc = "done"

\* a < b and a <= b as IEEE comparisons: false when either side is NaN
Lt(a, b) == Gt(b, a)

Le(a, b) == ~IsNaN(a) /\ ~IsNaN(b) /\ ~Gt(a, b)

RECURSIVE Pow(_, _)
Pow(a, k) == IF k = 0 THEN One ELSE Mul(a, Pow(a, k - 1))

\* bfgs_step has just returned step_size; x and search_direction are still its arguments
ReturnedFromStep == pc \in {"update_x", "returned"}

\* the Euclidean norm of df(v) is below tol
GradBelowTol(v) == IsFiniteVec(DF(f, v)) /\ NormLt(DF(f, v), tol)

\* C1: a returned result has converged = true and n_iter = k exactly when
\* iteration k < max_iter is the first whose tested iterate has gradient norm
\* below tol, and then the returned x is that iterate; otherwise every one of
\* the max_iter tests failed, converged = false and n_iter = max_iter.
C1_ConvergenceReport ==
    Done =>
        LET o == out[1]
            k == Len(checks)
        IN  /\ o.converged =>
                /\ o.iter < max_iter
                /\ k = o.iter + 1
                /\ o.x = checks[k].x
                /\ GradBelowTol(o.x)
                /\ \A j \in 1..(k - 1) : ~GradBelowTol(checks[j].x)
            /\ ~o.converged =>
                /\ o.iter = max_iter
                /\ k = max_iter
                /\ \A j \in 1..k : ~GradBelowTol(checks[j].x)

C1_Witness == Done /\ out[1].converged /\ out[1].iter = 2 /\ max_iter = 3

\* C2: with save_history and max_iter >= 1 the returned history has n_iter + 1
\* entries after convergence and max_iter entries otherwise, starts with x0,
\* and its i-th entry is the iterate held at the start of iteration i, appended
\* before that iteration's convergence test.
C2_HistoryRecorded ==
    /\ (pc = "test" /\ save_history) =>
            /\ Len(history) = iter + 1
            /\ history[iter + 1] = x
            /\ Len(checks) = iter
    /\ (Done /\ save_history /\ max_iter >= 1) =>
            LET o == out[1]
            IN  /\ o.has_history
                /\ Len(o.history) = (IF o.converged THEN o.iter + 1 ELSE max_iter)
                /\ o.history[1] = x0
                /\ \A i \in 1..Len(o.history) : o.history[i] = checks[i].x

C2_Witness ==
    Done /\ save_history /\ out[1].converged /\ Len(out[1].history) = 3

\* f(x + a*direction) <= f(x) + armijo_param * a * dot(df(x), direction)
SufficientDecrease(a) ==
    Le(F(f, VAdd(x, Scale(a, search_direction))),
       Add(F(f, x), Mul(armijo_param, Mul(a, Dot(DF(f, x), search_direction)))))

\* neither side of the sufficient-decrease inequality is NaN
Comparable(a) ==
    /\ ~IsNaN(F(f, VAdd(x, Scale(a, search_direction))))
    /\ ~IsNaN(Add(F(f, x), Mul(armijo_param, Mul(a, Dot(DF(f, x), search_direction)))))

\* C3 as stated: the Armijo step returned is (1/2)^k for the smallest k >= 0
\* whose step satisfies the sufficient-decrease inequality.
C3_ArmijoSufficientDecrease ==
    (ReturnedFromStep /\ method = "Armijo") =>
        /\ step_size = Pow(Half, halvings)
        /\ SufficientDecrease(step_size)
        /\ \A j \in 0..(halvings - 1) : ~SufficientDecrease(Pow(Half, j))

\* C3 as amended: the Armijo step returned is (1/2)^k for the smallest k >= 0
\* at which the test f(x + a*d) > f(x) + armijo_param*a*dot(df(x), d) is false;
\* it satisfies the sufficient-decrease inequality whenever neither side of
\* the inequality is NaN, and every larger step tried violates it.
C3_ArmijoBacktracking ==
    (ReturnedFromStep /\ method = "Armijo") =>
        /\ step_size = Pow(Half, halvings)
        /\ Comparable(step_size) => SufficientDecrease(step_size)
        /\ \A j \in 0..(halvings - 1) :
                Comparable(Pow(Half, j)) /\ ~SufficientDecrease(Pow(Half, j))

C3_Witness ==
    /\ ReturnedFromStep /\ method = "Armijo" /\ halvings = 2
    /\ SufficientDecrease(step_size)

\* C4: the step length bfgs_step returns is never negative, whatever the
\* method, the iterate and the direction.
C4_StepNonNegative == ReturnedFromStep => ~Lt(step_size, Zero)

\* C5: for f = x0^2 + x1^2 from (1,1) with full steps, tol = 1e-5 and
\* max_iter >= 10, bfgs returns converged with n_iter < 10 at a point whose
\* gradient norm is below tol and whose coordinates are within tol of 0.
NotebookRun ==
    /\ f = NotebookF /\ x0 = IntVec(<<1, 1>>) /\ method = "full"
    /\ tol = DefaultTol /\ max_iter >= 10 /\ ~direct

C5_NotebookFullConverges ==
    NotebookRun =>
        /\ pc # "raised"
        /\ Done =>
              LET o == out[1]
              IN  /\ o.converged
                  /\ o.iter < 10
                  /\ GradBelowTol(o.x)
                  /\ \A i \in Dim(o.x) : Lt(o.x[i], tol) /\ Gt(o.x[i], Neg(tol))

C5_Witness == NotebookRun /\ Done /\ out[1].converged /\ out[1].fx = Zero

\* f is a quadratic with positive definite Hessian
PosDefQuadratic == f.kind = "quad" /\ \A i \in Dim(f.a) : f.a[i] > 0

\* C6: on a positive definite quadratic in n variables bfgs with exact line
\* search and max_iter > n returns converged with n_iter <= n.
C6_ExactFiniteTermination ==
    (Done /\ method = "exact" /\ PosDefQuadratic /\ max_iter > n) =>
        /\ out[1].converged
        /\ out[1].iter <= n
        /\ GradBelowTol(out[1].x)

\* C7: once an iteration has produced a secant pair with dot(p,q) = 0 the
\* run does not raise and does not stop early: rho is non-finite, every entry
\* of H_inv is non-finite from that iteration's update on, and the loop runs
\* its remaining iterations.
C7_DegenerateRunsOn ==
    degenerate =>
        /\ pc # "raised"
        /\ ~IsFinite(rho)
        /\ (nHupdates = nupdates) => IsNonFiniteMat(H_inv)
        /\ ~converged
        /\ Done => out[1].iter = max_iter

\* C8: with max_iter = 0 bfgs returns at once: no convergence test, no call
\* of bfgs_step, no update of x; converged = false, n_iter = 0, x = x0 and,
\* if requested, an empty history.
C8_ZeroIterations ==
    (max_iter = 0 /\ ~direct) =>
        /\ pc \in {"for", "out", "done"}
        /\ checks = <<>> /\ ncalls = 0 /\ nupdates = 0
        /\ Done =>
              LET o == out[1]
              IN  /\ ~o.converged
                  /\ o.iter = 0
                  /\ o.x = x0
                  /\ o.has_history = save_history
                  /\ o.history = <<>>

C8_Witness == Done /\ max_iter = 0 /\ save_history /\ out[1].has_history

Outer(u, v) == [i \in Dim(u) |-> [j \in Dim(v) |-> Mul(u[i], v[j])]]

MatSub(A, B) == [i \in Dim(A) |-> [j \in Dim(A) |-> Sub(A[i][j], B[i][j])]]

\* C9: after each update H_inv = (I - rho*P) @ H_prev @ (I - rho*P) with P
\* the outer product of p and q and H_prev the matrix the iteration's
\* direction was computed from, rescaled by dot(p,q)/dot(q,q) in iteration 0.
C9_OuterProductUpdate ==
    (pc = "for" /\ nHupdates >= 1) =>
        LET Hprev == IF iter = 0
                     THEN MatScale(Div(Dot(p, q), Dot(q, q)), H_used)
                     ELSE H_used
            Fac == MatSub(Eye(n), MatScale(rho, Outer(p, q)))
        IN  H_inv = MatMul(MatMul(Fac, Hprev), Fac)

\* C10: every iteration runs in the order record, test, direction from the
\* current H_inv, one call of bfgs_step, update of x, update of H_inv; no call
\* is made in the iteration that detects convergence, so a returned result
\* reports n_iter = number of bfgs_step calls = number of x updates <= max_iter.
C10_IterationOrder ==
    ~direct =>
        /\ pc = "record" => (ncalls = iter /\ nupdates = iter /\ nHupdates = iter
                             /\ Len(checks) = iter)
        /\ pc = "test" => (ncalls = iter /\ nupdates = iter /\ Len(checks) = iter)
        /\ pc = "direction" => (ncalls = iter /\ Len(checks) = iter + 1 /\ ~converged)
        /\ pc = "step" => (ncalls = iter /\ nupdates = iter /\ ~converged
                           /\ search_direction = VNeg(MatVec(H_inv, DF(f, x))))
        /\ pc = "armijo_while" => (ncalls = iter + 1 /\ nupdates = iter)
        /\ pc = "update_x" => (ncalls = iter + 1 /\ nupdates = iter /\ nHupdates = iter)
        /\ pc = "update_H" => (ncalls = iter + 1 /\ nupdates = iter + 1 /\ nHupdates = iter
                               /\ x = VAdd(x_old, Scale(step_size, search_direction)))
        /\ pc = "for" => (ncalls = iter + 1 /\ nupdates = iter + 1 /\ nHupdates = iter + 1)
        /\ converged => (ncalls = n_iter /\ nupdates = n_iter)
        /\ Done => (ncalls = out[1].iter /\ nupdates = out[1].iter
                    /\ out[1].iter <= max_iter)

C10_Witness == Done /\ out[1].converged /\ ncalls = 2 /\ nHupdates = 2
====
